---- MODULE Spec2Model ----
(***************************************************************************)
(* Model of MatrixView (src/src/MatrixView.ts): the bounded traversals     *)
(* dfsAllPaths and dfsAdjList, the outline renderer createIndex and the    *)
(* neighbourhood assembly of draw.                                         *)
(*                                                                         *)
(* A graphlib Graph is read only through successors()/predecessors(), so   *)
(* a graph is modelled by what those calls return: duplicate-free lists    *)
(* of node identifiers in edge-insertion order.                            *)
(***************************************************************************)
EXTENDS Integers, Sequences, FiniteSets, TLC

VARIABLES
    pc,         \* position of the running operation
    g,          \* the graph handed to dfsAllPaths / dfsAdjList
    startNode,  \* the start node of the traversal
    queue,      \* the work queue of the running traversal
    pathsArr,   \* dfsAllPaths: the finalized paths
    adjList,    \* dfsAdjList: the emitted adjacency entries
    i,          \* the iteration counter of the running traversal
    ret,        \* what the finished operation returned
    noDoubles,  \* draw: the adjacency list handed to createTreeHierarchy
    allPaths,   \* createIndex: the paths to render
    settings,   \* createIndex: wikilinkIndex and aliasesInIndex
    index,      \* createIndex: the text built so far
    reversed,   \* createIndex: the paths reversed, start node dropped
    visited,    \* createIndex: node -> depths already rendered
    pathNo,     \* createIndex: the path being walked (1-based)
    depth,      \* createIndex: the position in that path (0-based)
    emitted,    \* createIndex: the (node, depth) of every line added, in order
    gParents,   \* draw: the parents graph
    gSiblings,  \* draw: the siblings graph
    gChildren,  \* draw: the children graph
    currFile,   \* draw: the basename of the active file
    realParents, realSiblings, realChildren,    \* draw: the real items
    impliedParents, impliedChildren,            \* draw: the implied items
    impliedSiblingsArr,                         \* draw: the implied siblings
    parentNo,   \* draw: the parent being visited by currParents.forEach (1-based)
    closedParents,  \* draw: closeImpliedLinks(gParents, gChildren)
    closedChildren, \* index commands: closeImpliedLinks(gChildren, gParents)
    reclosed,   \* the closure of the two closed graphs
    gAdj,       \* side by side: the graph of each call of dfsAdjList
    adjQueue,   \* side by side: the queue of each call of dfsAdjList
    adjI        \* side by side: the counter i of each call of dfsAdjList

indexVars == <<allPaths, settings, index, reversed, visited, pathNo, depth, emitted>>

travVars == <<g, startNode, queue, pathsArr, adjList, i, noDoubles>>

drawVars == <<gParents, gSiblings, gChildren, currFile, realParents, realSiblings,
              realChildren, impliedParents, impliedChildren, impliedSiblingsArr,
              parentNo>>

closeVars == <<closedParents, closedChildren, reclosed>>

pairVars == <<gAdj, adjQueue, adjI>>

vars == <<pc, ret, travVars, indexVars, closeVars, pairVars, drawVars, closeVars, pairVars>>

(***************************************************************************)
(* Node identifiers and constants of the program.                          *)
(***************************************************************************)
Nodes == {"Root", "Mid", "Leaf"}

\* the iteration bound of both traversals: `i < 1000`
IterBound == 1000

(***************************************************************************)
(* Sequence helpers.                                                       *)
(***************************************************************************)
Range(s) == {s[k] : k \in 1..Len(s)}

\* the duplicate-free sequences over S of length n
RECURSIVE DistinctSeqsOfLen(_, _)
DistinctSeqsOfLen(S, n) ==
    IF n = 0 THEN {<<>>}
    ELSE UNION {{Append(s, x) : x \in S \ Range(s)} : s \in DistinctSeqsOfLen(S, n - 1)}

DistinctSeqs(S) == UNION {DistinctSeqsOfLen(S, n) : n \in 0..Cardinality(S)}

(***************************************************************************)
(* Graphs.  A graphlib Graph is modelled by its edges <<v, w>> in the      *)
(* order they were set; successors(v) and predecessors(v) list each        *)
(* neighbour once, in that order (the keys of the node's edge maps).       *)
(***************************************************************************)
Edges == Nodes \X Nodes

\* (g.successors(v) ?? []): the targets of the edges leaving v
successors(gr, v) ==
    LET out == SelectSeq(gr, LAMBDA e : e[1] = v)
    IN [k \in 1..Len(out) |-> out[k][2]]

\* (g.predecessors(v) ?? []): the sources of the edges entering v
predecessors(gr, v) ==
    LET in == SelectSeq(gr, LAMBDA e : e[2] = v)
    IN [k \in 1..Len(in) |-> in[k][1]]

\* the nodes reachable from the set S by at least one edge
RECURSIVE ReachFrom(_, _, _)
ReachFrom(gr, S, seen) ==
    LET next == UNION {Range(successors(gr, n)) : n \in S} IN
    IF next \subseteq seen THEN seen
    ELSE ReachFrom(gr, next \ seen, seen \cup next)

Reach(gr, n) == ReachFrom(gr, {n}, {})

Acyclic(gr) == \A n \in Nodes : n \notin Reach(gr, n)

\* every node has at most one successor
Functional(gr) == \A n \in Nodes : Len(successors(gr, n)) <= 1

Sinks(gr) == {n \in Nodes : Len(successors(gr, n)) = 0}

\* the graph in which Root, Mid and Leaf have the given successor lists
GraphOf(r, m, l) ==
    [k \in 1..Len(r) |-> <<"Root", r[k]>>]
        \o [k \in 1..Len(m) |-> <<"Mid", m[k]>>]
        \o [k \in 1..Len(l) |-> <<"Leaf", l[k]>>]

\* one graph per choice of the three successor lists
AllGraphs ==
    {GraphOf(r, m, l) : r \in DistinctSeqs(Nodes), m \in DistinctSeqs(Nodes),
                        l \in DistinctSeqs(Nodes)}

\* cyclic graphs with a branching node: the exit of the cycle is listed first,
\* listed last, or the cycle is entered after a sink
BranchingCycles ==
    { GraphOf(<<"Mid">>, <<"Leaf", "Root">>, <<>>),
      GraphOf(<<"Mid">>, <<"Root", "Leaf">>, <<>>),
      GraphOf(<<"Leaf", "Mid">>, <<"Mid">>, <<>>),
      GraphOf(<<"Mid", "Leaf">>, <<"Mid">>, <<>>),
      GraphOf(<<"Root", "Mid">>, <<>>, <<>>),
      GraphOf(<<"Mid", "Root">>, <<>>, <<>>) }

\* the graphs the traversals are run on: every acyclic graph, every graph of
\* out-degree at most one (all cycle shapes without branching), and the samples
Graphs == {h \in AllGraphs : Acyclic(h) \/ Functional(h)} \cup BranchingCycles

\* no closure has been computed
CloseIdle == closedParents = <<>> /\ closedChildren = <<>> /\ reclosed = <<>>

\* the two traversals are not being followed side by side
PairIdle == gAdj = <<>> /\ adjQueue = <<>> /\ adjI = <<>>

\* no draw is running
DrawIdle ==
    /\ gParents = <<>> /\ gSiblings = <<>> /\ gChildren = <<>>
    /\ currFile = "Root"
    /\ realParents = <<>> /\ realSiblings = <<>> /\ realChildren = <<>>
    /\ impliedParents = <<>> /\ impliedChildren = <<>>
    /\ impliedSiblingsArr = <<>>
    /\ parentNo = 0

\* no createIndex call is running
IndexIdle ==
    /\ allPaths = <<>>
    /\ settings = [wikilinkIndex |-> FALSE, aliasesInIndex |-> FALSE]
    /\ index = ""
    /\ reversed = <<>>
    /\ visited = <<>>
    /\ pathNo = 0
    /\ depth = 0
    /\ emitted = <<>>

(***************************************************************************)
(* dfsAllPaths(g, startNode)                                               *)
(***************************************************************************)
\* `queue.length > 0 && i < 1000` with the bound off by one
AllPathsLoopCondOffByOne(q, n) == Len(q) > 0 /\ n <= IterBound

\* the loop condition `queue.length > 0 && i < 1000`
AllPathsLoopCond(q, n) == Len(q) > 0 /\ n < IterBound

\* the extended path with the current node appended instead of prepended
ExtPathAppended(currPath) == Append(currPath.path, currPath.node)

\* extPath = [currPath.node, ...currPath.path]
ExtPath(currPath) == <<currPath.node>> \o currPath.path

\* the new work items with all but the first successor dropped
UnshiftFirstOnly(newNodes, extPath, q) ==
    [k \in 1..(IF Len(newNodes) > 0 THEN 1 ELSE 0) |->
        [node |-> newNodes[k], path |-> extPath]] \o q

\* the new work items appended behind the pending ones
PushAll(newNodes, extPath, q) ==
    q \o [k \in 1..Len(newNodes) |-> [node |-> newNodes[k], path |-> extPath]]

\* queue.unshift(...newNodes.map(n => ({node: n, path: extPath})))
UnshiftAll(newNodes, extPath, q) ==
    [k \in 1..Len(newNodes) |-> [node |-> newNodes[k], path |-> extPath]] \o q

\* the body of the loop, on the locals st = [queue, pathsArr, i]
AllPathsStep(gr, st) ==
    LET currPath == Head(st.queue)
        newNodes == successors(gr, currPath.node)
        extPath  == ExtPath(currPath)
    IN [ queue    |-> UnshiftAll(newNodes, extPath, Tail(st.queue)),
         pathsArr |-> IF Len(newNodes) = 0 THEN Append(st.pathsArr, extPath)
                      ELSE st.pathsArr,
         i        |-> st.i + 1 ]

\* the locals at the start of dfsAllPaths
AllPathsStart(start) ==
    [queue |-> <<[node |-> start, path |-> <<>>]>>, pathsArr |-> <<>>, i |-> 0]

InitAllPaths ==
    /\ pc = "dfsAllPaths"
    /\ g \in Graphs
    /\ startNode \in Nodes
    /\ queue = AllPathsStart(startNode).queue
    /\ pathsArr = AllPathsStart(startNode).pathsArr
    /\ i = AllPathsStart(startNode).i
    /\ adjList = <<>>
    /\ ret = <<>>
    /\ noDoubles = <<>>
    /\ IndexIdle
    /\ DrawIdle
    /\ CloseIdle
    /\ PairIdle

\* one iteration of the loop of dfsAllPaths
AllPathsIter ==
    /\ pc = "dfsAllPaths"
    /\ AllPathsLoopCond(queue, i)
    /\ LET st == AllPathsStep(g, [queue |-> queue, pathsArr |-> pathsArr, i |-> i])
       IN /\ i' = st.i
          /\ queue' = st.queue
          /\ pathsArr' = st.pathsArr
    /\ UNCHANGED <<pc, g, startNode, adjList, ret, noDoubles>>
    /\ UNCHANGED <<indexVars, drawVars, closeVars, pairVars>>

\* the loop condition fails: `return pathsArr`
AllPathsReturn ==
    /\ pc = "dfsAllPaths"
    /\ ~AllPathsLoopCond(queue, i)
    /\ pc' = "allPathsDone"
    /\ ret' = pathsArr
    /\ UNCHANGED <<g, startNode, queue, pathsArr, adjList, i, noDoubles>>
    /\ UNCHANGED <<indexVars, drawVars, closeVars, pairVars>>

(***************************************************************************)
(* dfsAdjList(g, startNode)                                                *)
(***************************************************************************)
\* `queue.length && i < 1000` with the bound off by one
AdjListLoopCondOffByOne(q, n) == Len(q) > 0 /\ n <= IterBound

\* the loop condition `queue.length && i < 1000`
AdjListLoopCond(q, n) == Len(q) > 0 /\ n < IterBound

\* the successors unshifted in one call, the first one listed at the front
UnshiftInOrder(newNodes, q) == newNodes \o q

\* newNodes.forEach(succ => queue.unshift(succ)): the successors are unshifted
\* one at a time, so the last one listed ends up at the front
RECURSIVE UnshiftEach(_, _)
UnshiftEach(newNodes, q) ==
    IF newNodes = <<>> THEN q
    ELSE UnshiftEach(Tail(newNodes), <<Head(newNodes)>> \o q)

\* newNodes.forEach(succ => adjList.push({name: currNode, parentId: succ}))
PushEntries(currNode, newNodes, list) ==
    list \o [k \in 1..Len(newNodes) |-> [name |-> currNode, parentId |-> newNodes[k]]]

InitAdjList ==
    /\ pc = "dfsAdjList"
    /\ g \in Graphs
    /\ startNode \in Nodes
    /\ queue = <<startNode>>
    /\ pathsArr = <<>>
    /\ adjList = <<>>
    /\ i = 0
    /\ ret = <<>>
    /\ noDoubles = <<>>
    /\ IndexIdle
    /\ DrawIdle
    /\ CloseIdle
    /\ PairIdle

\* one iteration of the loop of dfsAdjList
AdjListIter ==
    /\ pc = "dfsAdjList"
    /\ AdjListLoopCond(queue, i)
    /\ LET currNode == Head(queue)
           newNodes == successors(g, currNode)
       IN /\ i' = i + 1
          /\ queue' = UnshiftEach(newNodes, Tail(queue))
          /\ adjList' = PushEntries(currNode, newNodes, adjList)
    /\ UNCHANGED <<pc, g, startNode, pathsArr, ret, noDoubles>>
    /\ UNCHANGED <<indexVars, drawVars, closeVars, pairVars>>

\* the loop condition fails: `return adjList`
AdjListReturn ==
    /\ pc = "dfsAdjList"
    /\ ~AdjListLoopCond(queue, i)
    /\ pc' = "adjListDone"
    /\ ret' = adjList
    /\ UNCHANGED <<g, startNode, queue, pathsArr, adjList, i, noDoubles>>
    /\ UNCHANGED <<indexVars, drawVars, closeVars, pairVars>>

(***************************************************************************)
(* draw: the adjacency list is filtered before createTreeHierarchy.        *)
(***************************************************************************)
\* self.findIndex(t => t.name === thing.name && t?.parentId === thing?.parentId),
\* 1-based; thing is an element of self
FindIndex(self, thing) ==
    CHOOSE k \in 1..Len(self) :
        /\ self[k].name = thing.name /\ self[k].parentId = thing.parentId
        /\ \A j \in 1..(k - 1) :
              ~(self[j].name = thing.name /\ self[j].parentId = thing.parentId)

\* the filter comparing the names only
NoDoublesByName(list) ==
    LET first(k) == \A j \in 1..(k - 1) : list[j].name # list[k].name
        RECURSIVE Keep(_)
        Keep(k) == IF k > Len(list) THEN <<>>
                   ELSE IF first(k) THEN <<list[k]>> \o Keep(k + 1) ELSE Keep(k + 1)
    IN Keep(1)

\* adjList.filter((thing, index, self) => index === self.findIndex(...))
NoDoubles(list) ==
    LET idx == [k \in 1..Len(list) |-> k]
        kept == SelectSeq(idx, LAMBDA k : k = FindIndex(list, list[k]))
    IN [k \in 1..Len(kept) |-> list[kept[k]]]

\* const noDoubles = adjList.filter(...), handed to createTreeHierarchy
DrawNoDoubles ==
    /\ pc = "adjListDone"
    /\ pc' = "treeReady"
    /\ noDoubles' = NoDoubles(ret)
    /\ UNCHANGED <<g, startNode, queue, pathsArr, adjList, i, ret>>
    /\ UNCHANGED <<indexVars, drawVars, closeVars, pairVars>>

(***************************************************************************)
(* The traversals: either operation is called on a graph and a start node. *)
(***************************************************************************)
InitTraversal == InitAllPaths \/ InitAdjList

NextTraversal ==
    \/ AllPathsIter
    \/ AllPathsReturn
    \/ AdjListIter
    \/ AdjListReturn
    \/ DrawNoDoubles

SpecTraversal == InitTraversal /\ [][NextTraversal]_vars

\* dfsAllPaths run to its return, as a function of its inputs
RECURSIVE AllPathsRun(_, _)
AllPathsRun(gr, st) ==
    IF AllPathsLoopCond(st.queue, st.i) THEN AllPathsRun(gr, AllPathsStep(gr, st))
    ELSE st

(***************************************************************************)
(* createIndex(index, allPaths, settings)                                  *)
(***************************************************************************)
\* identifiers of the notes below the start note
IndexIds == {"Mid", "Leaf", "Other"}

\* at most this many notes between the start note and the end of a path
MaxDepth == 2

\* at most this many paths in one call
MaxPaths == 2

SeqsUpTo(S, n) == UNION {[1..k -> S] : k \in 0..n}

\* paths as dfsAllPaths returns them: the start note "Root" is last
IndexPaths == {p \o <<"Root">> : p \in SeqsUpTo(IndexIds, MaxDepth)}

\* str.repeat(n)
RECURSIVE Repeat(_, _)
Repeat(str, n) == IF n <= 0 THEN "" ELSE str \o Repeat(str, n - 1)

\* list.join(sep)
RECURSIVE Join(_, _)
Join(list, sep) ==
    IF Len(list) = 0 THEN ""
    ELSE IF Len(list) = 1 THEN list[1]
    ELSE list[1] \o sep \o Join(Tail(list), sep)

\* the alias and aliases declared in the front matter of a note, flattened
AllAliases(currNode) ==
    IF currNode = "Mid" THEN <<"M">>
    ELSE IF currNode = "Other" THEN <<"O1", "O2">>
    ELSE <<>>

\* copy.map(path => path.reverse()), then path.shift() on each
ReverseAndShift(paths) ==
    [k \in 1..Len(paths) |->
        LET r == [j \in 1..Len(paths[k]) |-> paths[k][Len(paths[k]) + 1 - j]]
        IN IF Len(r) = 0 THEN r ELSE Tail(r)]

\* the test with the depth left out: visited at any depth
VisitedAtAnyDepth(vis, currNode, d) == currNode \in DOMAIN vis

\* visited.hasOwnProperty(currNode) && visited[currNode].includes(depth)
VisitedAt(vis, currNode, d) ==
    currNode \in DOMAIN vis /\ \E k \in 1..Len(vis[currNode]) : vis[currNode][k] = d

\* if (!visited.hasOwnProperty(currNode)) visited[currNode] = [];
\* visited[currNode].push(depth)
MarkVisited(vis, currNode, d) ==
    [n \in DOMAIN vis \cup {currNode} |->
        IF n = currNode
        THEN Append(IF n \in DOMAIN vis THEN vis[n] ELSE <<>>, d)
        ELSE vis[n]]

\* the line with one indent too many
IndexLineIndentedByOne(currNode, d, cfg) ==
    Repeat("  ", d + 1) \o "- " \o currNode \o "\n"

\* the text added for currNode at the given depth
IndexLine(currNode, d, cfg) ==
    Repeat("  ", d) \o "- "
        \o (IF cfg.wikilinkIndex THEN "[[" ELSE "")
        \o currNode
        \o (IF cfg.wikilinkIndex THEN "]]" ELSE "")
        \o (IF cfg.aliasesInIndex /\ Len(AllAliases(currNode)) > 0
            THEN " (" \o Join(AllAliases(currNode), ", ") \o ")"
            ELSE "")
        \o "\n"

\* the command calls createIndex(currFile + "\n", allPaths, settings)
InitIndex ==
    /\ pc = "createIndex"
    /\ allPaths \in SeqsUpTo(IndexPaths, MaxPaths)
    /\ settings \in [wikilinkIndex : BOOLEAN, aliasesInIndex : BOOLEAN]
    /\ index = "Root" \o "\n"
    /\ reversed = <<>>
    /\ visited = <<>>
    /\ pathNo = 0
    /\ depth = 0
    /\ emitted = <<>>
    /\ ret = <<>>
    /\ g = <<>> /\ startNode = "Root" /\ queue = <<>> /\ pathsArr = <<>>
    /\ adjList = <<>> /\ i = 0 /\ noDoubles = <<>>
    /\ DrawIdle
    /\ CloseIdle
    /\ PairIdle

\* the paths are copied, reversed and stripped of the start note
IndexReverse ==
    /\ pc = "createIndex"
    /\ pc' = "indexLoop"
    /\ reversed' = ReverseAndShift(allPaths)
    /\ pathNo' = 1
    /\ depth' = 0
    /\ UNCHANGED <<ret, travVars, drawVars, closeVars, pairVars, allPaths, settings, index, visited, emitted>>

\* an iteration of the inner loop on a node not yet rendered at this depth
IndexEmit ==
    /\ pc = "indexLoop"
    /\ pathNo <= Len(reversed)
    /\ depth < Len(reversed[pathNo])
    /\ LET currNode == reversed[pathNo][depth + 1] IN
        /\ ~VisitedAt(visited, currNode, depth)
        /\ index' = index \o IndexLine(currNode, depth, settings)
        /\ visited' = MarkVisited(visited, currNode, depth)
        /\ emitted' = Append(emitted, [node |-> currNode, depth |-> depth])
    /\ depth' = depth + 1
    /\ UNCHANGED <<pc, ret, travVars, drawVars, closeVars, pairVars, allPaths, settings, reversed, pathNo>>

\* an iteration of the inner loop on a node already rendered at this depth
IndexSkip ==
    /\ pc = "indexLoop"
    /\ pathNo <= Len(reversed)
    /\ depth < Len(reversed[pathNo])
    /\ VisitedAt(visited, reversed[pathNo][depth + 1], depth)
    /\ depth' = depth + 1
    /\ UNCHANGED <<pc, ret, travVars, drawVars, closeVars, pairVars, allPaths, settings, index, reversed, visited,
                   pathNo, emitted>>

\* the inner loop ends: the next path
IndexNextPath ==
    /\ pc = "indexLoop"
    /\ pathNo <= Len(reversed)
    /\ depth >= Len(reversed[pathNo])
    /\ pathNo' = pathNo + 1
    /\ depth' = 0
    /\ UNCHANGED <<pc, ret, travVars, drawVars, closeVars, pairVars, allPaths, settings, index, reversed, visited,
                   emitted>>

\* the outer loop ends: `return index`
IndexReturn ==
    /\ pc = "indexLoop"
    /\ pathNo > Len(reversed)
    /\ pc' = "indexDone"
    /\ ret' = index
    /\ UNCHANGED <<travVars, drawVars, closeVars, pairVars, indexVars>>

NextIndex == IndexReverse \/ IndexEmit \/ IndexSkip \/ IndexNextPath \/ IndexReturn

SpecIndex == InitIndex /\ [][NextIndex]_vars

(***************************************************************************)
(* draw(): the real and implied items of the three squares                 *)
(***************************************************************************)
\* at most this many edges in the three graphs of a draw, taken together
MaxDrawEdges == 3

\* the targets the metadata cache reports as unresolved from the active file
UnresolvedTargets == {"Leaf"}

\* unresolvedQ(to, from): unresolvedLinks[from][to] > 0
unresolvedQ(to, from) == to \in UnresolvedTargets

\* squareItems(g, currFile, realQ)
squareItems(gr, curr, realQ) ==
    LET items == IF realQ THEN successors(gr, curr) ELSE predecessors(gr, curr)
    IN [k \in 1..Len(items) |->
          [to  |-> items[k],
           cls |-> "internal-link breadcrumbs-link"
                     \o (IF unresolvedQ(items[k], curr) THEN " is-unresolved" ELSE "")
                     \o (IF realQ THEN "" ELSE " breadcrumbs-implied")]]

\* the filter that keeps every implied item
KeepAllImplied(reals, implieds) == implieds

\* removeDuplicateImplied(reals, implieds)
removeDuplicateImplied(reals, implieds) ==
    LET realTos == {reals[k].to : k \in 1..Len(reals)}
    IN SelectSeq(implieds, LAMBDA implied : implied.to \notin realTos)

\* list.indexOf(x), 0-based, -1 when absent
IndexOf(list, x) ==
    IF \E k \in 1..Len(list) : list[k] = x
    THEN (CHOOSE k \in 1..Len(list) : list[k] = x /\ \A j \in 1..(k - 1) : list[j] # x) - 1
    ELSE -1

\* the list left as it is
SpliceNone(list, start) == list

\* list.splice(start, 1): a negative start counts from the end
SpliceOne(list, start) ==
    LET from == IF start < 0
                THEN (IF Len(list) + start < 0 THEN 0 ELSE Len(list) + start)
                ELSE start
    IN IF from >= Len(list) THEN list
       ELSE SubSeq(list, 1, from) \o SubSeq(list, from + 2, Len(list))

\* the items pushed for one parent of the active note
ImpliedSiblingsOf(parent, curr) ==
    LET impliedSiblings ==
            SpliceOne(predecessors(gParents, parent),
                      IndexOf(predecessors(gParents, parent), curr))
    IN [k \in 1..Len(impliedSiblings) |->
          [to  |-> impliedSiblings[k],
           cls |-> "internal-link breadcrumbs-link breadcrumbs-implied"
                     \o (IF unresolvedQ(impliedSiblings[k], curr)
                         THEN " is-unresolved" ELSE "")]]

InitDraw ==
    /\ pc = "draw"
    /\ \E a, b, c \in 0..MaxDrawEdges :
          /\ a + b + c <= MaxDrawEdges
          /\ gParents \in DistinctSeqsOfLen(Edges, a)
          /\ gSiblings \in DistinctSeqsOfLen(Edges, b)
          /\ gChildren \in DistinctSeqsOfLen(Edges, c)
    /\ currFile \in Nodes
    /\ realParents = <<>> /\ realSiblings = <<>> /\ realChildren = <<>>
    /\ impliedParents = <<>> /\ impliedChildren = <<>>
    /\ impliedSiblingsArr = <<>>
    /\ parentNo = 0
    /\ ret = <<>>
    /\ g = <<>> /\ startNode = "Root" /\ queue = <<>> /\ pathsArr = <<>>
    /\ adjList = <<>> /\ i = 0 /\ noDoubles = <<>>
    /\ IndexIdle
    /\ CloseIdle
    /\ PairIdle

\* the five squareItems calls
DrawSquareItems ==
    /\ pc = "draw"
    /\ pc' = "impliedSiblings"
    /\ realParents' = squareItems(gParents, currFile, TRUE)
    /\ realSiblings' = squareItems(gSiblings, currFile, TRUE)
    /\ realChildren' = squareItems(gChildren, currFile, TRUE)
    /\ impliedParents' = squareItems(gChildren, currFile, FALSE)
    /\ impliedChildren' = squareItems(gParents, currFile, FALSE)
    /\ impliedSiblingsArr' = <<>>
    /\ parentNo' = 1
    /\ UNCHANGED <<ret, travVars, indexVars, closeVars, pairVars, gParents, gSiblings, gChildren, currFile>>

\* one call of the callback of currParents.forEach
DrawParentSiblings ==
    /\ pc = "impliedSiblings"
    /\ parentNo <= Len(successors(gParents, currFile))
    /\ impliedSiblingsArr' =
          impliedSiblingsArr
            \o ImpliedSiblingsOf(successors(gParents, currFile)[parentNo], currFile)
    /\ parentNo' = parentNo + 1
    /\ UNCHANGED <<pc, ret, travVars, indexVars, closeVars, pairVars, gParents, gSiblings, gChildren, currFile,
                   realParents, realSiblings, realChildren, impliedParents,
                   impliedChildren>>

\* impliedSiblingsArr.push(...this.squareItems(gSiblings, currFile, false))
DrawReverseSiblings ==
    /\ pc = "impliedSiblings"
    /\ parentNo > Len(successors(gParents, currFile))
    /\ pc' = "removeDuplicates"
    /\ impliedSiblingsArr' = impliedSiblingsArr \o squareItems(gSiblings, currFile, FALSE)
    /\ UNCHANGED <<ret, travVars, indexVars, closeVars, pairVars, gParents, gSiblings, gChildren, currFile,
                   realParents, realSiblings, realChildren, impliedParents,
                   impliedChildren, parentNo>>

\* the three removeDuplicateImplied calls; the squares are then assembled
DrawRemoveDuplicates ==
    /\ pc = "removeDuplicates"
    /\ pc' = "drawn"
    /\ impliedParents' = removeDuplicateImplied(realParents, impliedParents)
    /\ impliedSiblingsArr' = removeDuplicateImplied(realSiblings, impliedSiblingsArr)
    /\ impliedChildren' = removeDuplicateImplied(realChildren, impliedChildren)
    /\ UNCHANGED <<ret, travVars, indexVars, closeVars, pairVars, gParents, gSiblings, gChildren, currFile,
                   realParents, realSiblings, realChildren, parentNo>>

NextDraw ==
    \/ DrawSquareItems
    \/ DrawParentSiblings
    \/ DrawReverseSiblings
    \/ DrawRemoveDuplicates

SpecDraw == InitDraw /\ [][NextDraw]_vars

(***************************************************************************)
(* closeImpliedLinks(real, implied), imported from src/sharedFunctions: the *)
(* closed graph keeps the edges of the first graph and gains the inverse   *)
(* of every edge of the second one (spec.md, 4.2).                         *)
(***************************************************************************)
MaxCloseEdges == 3

\* the edges of a graph, each turned round
Inverted(gr) == [k \in 1..Len(gr) |-> <<gr[k][2], gr[k][1]>>]

\* a closer that forgets the edges of the first graph
impliedLinksOnly(real, implied) == Inverted(implied)

closeImpliedLinks(real, implied) ==
    real \o SelectSeq(Inverted(implied), LAMBDA e : e \notin Range(real))

InitClose ==
    /\ pc = "close"
    /\ \E a, c \in 0..MaxCloseEdges :
          /\ a + c <= MaxCloseEdges
          /\ gParents \in DistinctSeqsOfLen(Edges, a)
          /\ gChildren \in DistinctSeqsOfLen(Edges, c)
    /\ gSiblings = <<>>
    /\ currFile = "Root"
    /\ realParents = <<>> /\ realSiblings = <<>> /\ realChildren = <<>>
    /\ impliedParents = <<>> /\ impliedChildren = <<>>
    /\ impliedSiblingsArr = <<>>
    /\ parentNo = 0
    /\ ret = <<>>
    /\ g = <<>> /\ startNode = "Root" /\ queue = <<>> /\ pathsArr = <<>>
    /\ adjList = <<>> /\ i = 0 /\ noDoubles = <<>>
    /\ IndexIdle
    /\ CloseIdle
    /\ PairIdle

\* draw: const closedParents = closeImpliedLinks(gParents, gChildren)
CloseParents ==
    /\ pc = "close"
    /\ pc' = "parentsClosed"
    /\ closedParents' = closeImpliedLinks(gParents, gChildren)
    /\ UNCHANGED <<closedChildren, reclosed>>
    /\ UNCHANGED <<ret, travVars, indexVars, drawVars, pairVars>>

\* the index commands: closeImpliedLinks(gChildren, gParents)
CloseChildren ==
    /\ pc = "parentsClosed"
    /\ pc' = "closed"
    /\ closedChildren' = closeImpliedLinks(gChildren, gParents)
    /\ UNCHANGED <<closedParents, reclosed>>
    /\ UNCHANGED <<ret, travVars, indexVars, drawVars, pairVars>>

\* the closer applied to the two closed graphs
CloseClosed ==
    /\ pc = "closed"
    /\ pc' = "reclosed"
    /\ reclosed' = closeImpliedLinks(closedParents, closedChildren)
    /\ UNCHANGED <<closedParents, closedChildren>>
    /\ UNCHANGED <<ret, travVars, indexVars, drawVars, pairVars>>

NextClose ==
    \/ CloseParents
    \/ CloseChildren
    \/ CloseClosed

SpecClose == InitClose /\ [][NextClose]_vars

(***************************************************************************)
(* dfsAllPaths and dfsAdjList followed side by side from the same start    *)
(* node, one iteration of each loop at a time.  dfsAdjList is called twice: *)
(* on the graph of dfsAllPaths, and on that graph with every successor     *)
(* list turned round; gAdj, adjQueue, adjList and adjI hold one value per  *)
(* call.                                                                   *)
(***************************************************************************)
\* the graph whose successors(v) is that of gr in reverse order
Mirrored(gr) == [k \in 1..Len(gr) |-> gr[Len(gr) + 1 - k]]

\* the two calls of dfsAdjList
AdjCalls == {1, 2}

\* call c of dfsAdjList goes through its loop once more
AdjListRuns(c) == AdjListLoopCond(adjQueue[c], adjI[c])

InitPair ==
    /\ pc = "pair"
    /\ g \in Graphs
    /\ gAdj = <<g, Mirrored(g)>>
    /\ startNode \in Nodes
    /\ queue = AllPathsStart(startNode).queue
    /\ pathsArr = AllPathsStart(startNode).pathsArr
    /\ i = AllPathsStart(startNode).i
    /\ adjQueue = [c \in AdjCalls |-> <<startNode>>]
    /\ adjList = [c \in AdjCalls |-> <<>>]
    /\ adjI = [c \in AdjCalls |-> 0]
    /\ ret = <<>>
    /\ noDoubles = <<>>
    /\ IndexIdle
    /\ DrawIdle
    /\ CloseIdle

\* one iteration of each loop whose condition holds
PairIter ==
    /\ pc = "pair"
    /\ \/ AllPathsLoopCond(queue, i)
       \/ \E c \in AdjCalls : AdjListRuns(c)
    /\ IF AllPathsLoopCond(queue, i)
       THEN LET st == AllPathsStep(g, [queue |-> queue, pathsArr |-> pathsArr, i |-> i])
            IN /\ i' = st.i
               /\ queue' = st.queue
               /\ pathsArr' = st.pathsArr
       ELSE UNCHANGED <<i, queue, pathsArr>>
    /\ adjI' = [c \in AdjCalls |-> IF AdjListRuns(c) THEN adjI[c] + 1 ELSE adjI[c]]
    /\ adjQueue' = [c \in AdjCalls |->
          IF AdjListRuns(c)
          THEN UnshiftEach(successors(gAdj[c], Head(adjQueue[c])), Tail(adjQueue[c]))
          ELSE adjQueue[c]]
    /\ adjList' = [c \in AdjCalls |->
          IF AdjListRuns(c)
          THEN PushEntries(Head(adjQueue[c]), successors(gAdj[c], Head(adjQueue[c])),
                           adjList[c])
          ELSE adjList[c]]
    /\ UNCHANGED <<pc, g, gAdj, startNode, ret, noDoubles>>
    /\ UNCHANGED <<indexVars, drawVars, closeVars>>

\* every loop condition fails: `return pathsArr` and `return adjList`
PairReturn ==
    /\ pc = "pair"
    /\ ~AllPathsLoopCond(queue, i)
    /\ \A c \in AdjCalls : ~AdjListRuns(c)
    /\ pc' = "pairDone"
    /\ ret' = [pathsArr |-> pathsArr, adjList |-> adjList]
    /\ UNCHANGED <<g, startNode, queue, pathsArr, adjList, i, noDoubles>>
    /\ UNCHANGED <<indexVars, drawVars, closeVars, pairVars>>

NextPair ==
    \/ PairIter
    \/ PairReturn

SpecPair == InitPair /\ [][NextPair]_vars

(***************************************************************************)
(* Vocabulary of the claims about the traversals.                          *)
(***************************************************************************)
Reverse(s) == [k \in 1..Len(s) |-> s[Len(s) + 1 - k]]

Returned == pc \in {"allPathsDone", "adjListDone", "treeReady"}

\* the traversal stopped at the bound with work still queued
Truncated == Returned /\ Len(queue) > 0

\* the sinks the start node reaches (itself included)
ReachableSinks(gr, start) == Sinks(gr) \cap ({start} \cup Reach(gr, start))

\* the walks of an acyclic graph from the start node to a sink, start first
RoutesToSinks(gr, start) ==
    {w \in DistinctSeqs(Nodes) :
        /\ Len(w) > 0
        /\ w[1] = start
        /\ w[Len(w)] \in Sinks(gr)
        /\ \A k \in 1..(Len(w) - 1) : w[k + 1] \in Range(successors(gr, w[k]))}

\* the chain Root -> Mid -> Leaf and the cycle Root -> Mid -> Root
ChainGraph == GraphOf(<<"Mid">>, <<"Leaf">>, <<>>)
CycleGraph == GraphOf(<<"Mid">>, <<"Root">>, <<>>)

\* what dfsAllPaths returns on the acyclic graphs, where it empties its queue
CompleteAllPathsResults ==
    {AllPathsRun(h, AllPathsStart(s)).pathsArr :
        h \in {k \in Graphs : Acyclic(k)}, s \in Nodes}

(***************************************************************************)
(* C1.  Both traversals terminate, after at most IterBound (1000) pops,    *)
(* also when the queue is still non-empty at that point: the counter never *)
(* exceeds the bound, a call that has not returned can always take a step, *)
(* every step of the loop is one more pop, and a call returns only with    *)
(* its queue empty or its counter at the bound.                            *)
(***************************************************************************)
C1_TerminatesWithinBound ==
    /\ [](i <= IterBound)
    /\ [](Returned => (Len(queue) = 0 \/ i = IterBound))
    /\ [](~Returned => ENABLED NextTraversal)
    /\ [][~Returned => (Returned' \/ i' = i + 1)]_vars

\* a traversal that returned at the bound with work still queued
C1_Witness == Truncated /\ i = IterBound

(***************************************************************************)
(* C2.  As claimed: on an acyclic graph traversed to the end, dfsAllPaths  *)
(* returns exactly one path per sink reachable from the start node.        *)
(***************************************************************************)
C2_OnePathPerSink ==
    (pc = "allPathsDone" /\ Acyclic(g) /\ Len(queue) = 0)
        => Len(ret) = Cardinality(ReachableSinks(g, startNode))

(***************************************************************************)
(* C2, amended.  On an acyclic graph traversed to the end, dfsAllPaths     *)
(* returns exactly one path per walk from the start node to a reachable    *)
(* sink (the walk reversed), so at least one path per reachable sink.      *)
(***************************************************************************)
C2_OnePathPerRoute ==
    (pc = "allPathsDone" /\ Acyclic(g) /\ Len(queue) = 0)
        => /\ Len(ret) = Cardinality(RoutesToSinks(g, startNode))
           /\ Range(ret) = {Reverse(w) : w \in RoutesToSinks(g, startNode)}
           /\ {p[1] : p \in Range(ret)} = ReachableSinks(g, startNode)

\* a sink reached by two walks: two paths returned for it
C2_Witness ==
    /\ pc = "allPathsDone" /\ Acyclic(g) /\ Len(queue) = 0
    /\ Len(ret) > Cardinality(ReachableSinks(g, startNode))

(***************************************************************************)
(* C5.  As claimed: every path dfsAllPaths returns begins with the start   *)
(* node and ends at a sink; on Root -> Mid -> Leaf from Root the result is *)
(* [["Root","Mid","Leaf"]].                                                *)
(***************************************************************************)
C5_StartFirst ==
    pc = "allPathsDone" =>
        /\ \A k \in 1..Len(ret) :
              ret[k][1] = startNode /\ ret[k][Len(ret[k])] \in Sinks(g)
        /\ (g = ChainGraph /\ startNode = "Root")
              => ret = << <<"Root", "Mid", "Leaf">> >>

(***************************************************************************)
(* C5, amended.  Every path dfsAllPaths returns begins with a sink and     *)
(* ends with the start node; on Root -> Mid -> Leaf from Root the result   *)
(* is [["Leaf","Mid","Root"]].                                             *)
(***************************************************************************)
C5_SinkFirst ==
    pc = "allPathsDone" =>
        /\ \A k \in 1..Len(ret) :
              /\ Len(ret[k]) > 0
              /\ ret[k][1] \in Sinks(g)
              /\ ret[k][Len(ret[k])] = startNode
        /\ (g = ChainGraph /\ startNode = "Root")
              => ret = << <<"Leaf", "Mid", "Root">> >>

\* the chain traversed from Root
C5_Witness ==
    pc = "allPathsDone" /\ g = ChainGraph /\ startNode = "Root" /\ Len(ret) = 1

(***************************************************************************)
(* C7.  As claimed: on the cycle Root -> Mid -> Root, dfsAllPaths from     *)
(* Root returns a non-empty list of paths.                                 *)
(***************************************************************************)
C7_CycleNonEmpty ==
    (pc = "allPathsDone" /\ g = CycleGraph /\ startNode = "Root") => Len(ret) > 0

(***************************************************************************)
(* C7, amended.  On the cycle Root -> Mid -> Root, dfsAllPaths from Root   *)
(* returns after exactly IterBound (1000) pops, the only budget there is,  *)
(* and returns the empty list: no node of the cycle is a sink.             *)
(***************************************************************************)
C7_CycleEmpty ==
    (pc = "allPathsDone" /\ g = CycleGraph /\ startNode = "Root")
        => i = IterBound /\ ret = <<>> /\ Len(queue) = 1

\* the traversal of the cycle has returned
C7_Witness == pc = "allPathsDone" /\ g = CycleGraph /\ startNode = "Root"

(***************************************************************************)
(* C8.  The list draw hands to createTreeHierarchy has no two entries with *)
(* the same name and parentId, and holds the entries of dfsAdjList's       *)
(* output in the order of their first occurrences.                         *)
(***************************************************************************)
FirstPos(list, x) ==
    CHOOSE k \in 1..Len(list) : list[k] = x /\ \A j \in 1..(k - 1) : list[j] # x

C8_UniqueFirstSeen ==
    pc = "treeReady" =>
        /\ \A j, k \in 1..Len(noDoubles) : j < k => noDoubles[j] # noDoubles[k]
        /\ Range(noDoubles) = Range(ret)
        /\ \A k \in 1..(Len(noDoubles) - 1) :
              FirstPos(ret, noDoubles[k]) < FirstPos(ret, noDoubles[k + 1])

\* repeated entries were collapsed and several entries remain
C8_Witness == pc = "treeReady" /\ Len(noDoubles) < Len(ret) /\ Len(noDoubles) >= 2

(***************************************************************************)
(* C9.  As claimed: when dfsAllPaths stops at the bound with work still    *)
(* queued, what it returns tells the caller that the result was truncated: *)
(* it is not a value a complete traversal returns.                         *)
(***************************************************************************)
C9_TruncationVisible ==
    (pc = "allPathsDone" /\ Truncated) => ret \notin CompleteAllPathsResults

(***************************************************************************)
(* C9, amended.  When a traversal stops at the bound with work still       *)
(* queued, no error is raised: it returns, after exactly IterBound pops,   *)
(* the bare list gathered so far, with the unprocessed work dropped.       *)
(***************************************************************************)
C9_SilentTruncation ==
    Truncated =>
        /\ i = IterBound
        /\ ret = IF pc = "allPathsDone" THEN pathsArr ELSE adjList

\* a truncated result equal to the complete result of another graph
C9_Witness ==
    pc = "allPathsDone" /\ Truncated /\ ret \in CompleteAllPathsResults

(***************************************************************************)
(* Vocabulary of the claims about createIndex.                             *)
(***************************************************************************)
\* the (node, depth) positions of a path, root side first, start note dropped
PathPositions(p) ==
    [k \in 1..(Len(p) - 1) |-> [node |-> p[Len(p) - k], depth |-> k - 1]]

\* the positions of all the paths, in input order
RECURSIVE Positions(_)
Positions(paths) ==
    IF Len(paths) = 0 THEN <<>>
    ELSE PathPositions(Head(paths)) \o Positions(Tail(paths))

\* a list without the elements that occur earlier in it
FirstOccurrences(list) ==
    LET idx == [k \in 1..Len(list) |-> k]
        kept == SelectSeq(idx, LAMBDA k : \A j \in 1..(k - 1) : list[j] # list[k])
    IN [k \in 1..Len(kept) |-> list[kept[k]]]

\* n spaces
RECURSIVE Spaces(_)
Spaces(n) == IF n = 0 THEN "" ELSE " " \o Spaces(n - 1)

\* the plain lines of the given positions, concatenated
RECURSIVE PlainLines(_)
PlainLines(list) ==
    IF Len(list) = 0 THEN ""
    ELSE Spaces(2 * Head(list).depth) \o "- " \o Head(list).node \o "\n"
            \o PlainLines(Tail(list))

PlainSettings == ~settings.wikilinkIndex /\ ~settings.aliasesInIndex

C6_PlainOutline ==
    (pc = "indexDone" /\ PlainSettings) =>
        /\ ret = "Root\n" \o PlainLines(FirstOccurrences(Positions(allPaths)))
        /\ allPaths = << <<"Leaf", "Mid", "Root">> >>
            => ret = "Root\n- Mid\n  - Leaf\n"

\* the outline of the chain, rendered plain
C6_Witness ==
    /\ pc = "indexDone" /\ PlainSettings
    /\ allPaths = << <<"Leaf", "Mid", "Root">> >>
    /\ Len(emitted) = 2

(***************************************************************************)
(* Vocabulary of the claims about draw.                                    *)
(***************************************************************************)
\* the identifiers of a list of items
Tos(items) == {items[k].to : k \in 1..Len(items)}

\* the notes other than n that are predecessors of a real parent of n
SameParentNotes(n) ==
    {m \in Nodes \ {n} :
        \E P \in Range(successors(gParents, n)) : m \in Range(predecessors(gParents, P))}

(***************************************************************************)
(* C3.  After draw has assembled the neighbourhood, no identifier is both  *)
(* in the real items and in the implied items of the parents, of the       *)
(* siblings or of the children.                                            *)
(***************************************************************************)
C3_RealImpliedDisjoint ==
    pc = "drawn" =>
        /\ Tos(realParents) \cap Tos(impliedParents) = {}
        /\ Tos(realSiblings) \cap Tos(impliedSiblingsArr) = {}
        /\ Tos(realChildren) \cap Tos(impliedChildren) = {}

\* a real parent that the children graph also implies, and was removed
C3_Witness ==
    /\ pc = "drawn"
    /\ \E P \in Tos(realParents) : P \in Range(predecessors(gChildren, currFile))
    /\ Len(impliedParents) < Len(predecessors(gChildren, currFile))

(***************************************************************************)
(* C10.  The implied siblings of the active note n are exactly the notes   *)
(* m # n that are predecessors, in the parents graph, of a real parent of  *)
(* n, together with the predecessors of n in the siblings graph, minus the *)
(* real siblings of n; n itself is never among them.                       *)
(***************************************************************************)
C10_ImpliedSiblings ==
    pc = "drawn" =>
        /\ Tos(impliedSiblingsArr) =
              (SameParentNotes(currFile) \cup Range(predecessors(gSiblings, currFile)))
                 \ Range(successors(gSiblings, currFile))
        /\ currFile \notin Tos(impliedSiblingsArr)

\* a note sharing a parent with n and a reverse sibling are both listed
C10_Witness ==
    /\ pc = "drawn"
    /\ SameParentNotes(currFile) \cap Tos(impliedSiblingsArr) # {}
    /\ Range(predecessors(gSiblings, currFile)) \cap Tos(impliedSiblingsArr) # {}
    /\ Cardinality(Tos(impliedSiblingsArr)) >= 2

(***************************************************************************)
(* Vocabulary of the claims about the closer.                              *)
(***************************************************************************)
\* the successors close(F, G) must give n: those of F, and every m that
\* lists n among its successors in G
CloseSuccessors(F, G, n) ==
    Range(successors(F, n)) \cup {m \in Nodes : n \in Range(successors(G, m))}

\* C11: the closed graph gives every node the successors close(F, G)
\* prescribes, and closing the two closed graphs once more yields the edge
\* set of the first closure.
C11_ClosureIdempotent ==
    /\ pc \in {"parentsClosed", "closed", "reclosed"} =>
          \A n \in Nodes :
              Range(successors(closedParents, n)) = CloseSuccessors(gParents, gChildren, n)
    /\ pc \in {"closed", "reclosed"} =>
          \A n \in Nodes :
              Range(successors(closedChildren, n)) = CloseSuccessors(gChildren, gParents, n)
    /\ pc = "reclosed" => Range(reclosed) = Range(closedParents)

\* a second closure of graphs whose first closure added an inverted edge
C11_Witness ==
    /\ pc = "reclosed"
    /\ gParents # <<>>
    /\ Range(closedParents) # Range(gParents)
    /\ Range(closedChildren) # Range(gChildren)
    /\ Range(reclosed) = Range(closedParents)

\* C12: an iteration of dfsAllPaths that pops a node puts one work item per
\* successor at the front of the queue, in the order successors() lists
\* them, and leaves the pending items behind them untouched, so that the
\* next pop takes the first successor and no pending item is reached before
\* the new ones are gone: from the front to the back of the queue the
\* stored paths never get longer.
C12_FrontInsertion ==
    /\ [][(pc = "dfsAllPaths" /\ i' = i + 1) =>
            LET popped  == Head(queue)
                listed  == successors(g, popped.node)
                pending == Tail(queue)
            IN /\ Len(queue') = Len(listed) + Len(pending)
               /\ \A k \in 1..Len(listed) :
                     /\ queue'[k].node = listed[k]
                     /\ queue'[k].path = <<popped.node>> \o popped.path
               /\ SubSeq(queue', Len(listed) + 1, Len(queue')) = pending
               /\ (Len(listed) > 0 /\ i' < IterBound) =>
                     /\ AllPathsLoopCond(queue', i')
                     /\ Head(queue').node = listed[1]]_vars
    /\ [](pc \in {"dfsAllPaths", "allPathsDone"} =>
            \A k \in 1..(Len(queue) - 1) :
                Len(queue[k].path) >= Len(queue[k + 1].path))

\* two successors of one node wait at the front, ahead of an older item
C12_Witness ==
    /\ pc = "dfsAllPaths"
    /\ Len(queue) >= 3
    /\ queue[1].path = queue[2].path
    /\ queue[1].node # queue[2].node
    /\ <<queue[1].node, queue[2].node>> = successors(g, queue[1].path[1])
    /\ Len(queue[3].path) < Len(queue[2].path)

(***************************************************************************)
(* Vocabulary of the claim about the two traversals side by side.          *)
(***************************************************************************)
\* dfsAllPaths and call c of dfsAdjList have done the same number of
\* iterations, go on or stop together, and are about to pop the same node
SamePop(c) ==
    /\ i = adjI[c]
    /\ AllPathsLoopCond(queue, i) <=> AdjListRuns(c)
    /\ AllPathsLoopCond(queue, i) => Head(queue).node = Head(adjQueue[c])

\* no node of the graph has more than one successor
SingleSuccessors(gr) == \A n \in Nodes : Len(successors(gr, n)) <= 1

\* C13 as stated: on the same graph and start node dfsAdjList pops the
\* nodes dfsAllPaths pops, in the same order.
C13_SamePopSequence == pc = "pair" => SamePop(1)

\* C13: dfsAdjList pops, in the same order, the nodes dfsAllPaths pops on
\* the graph with every successor list reversed; on the same graph the two
\* sequences are identical when no node has more than one successor.
C13_MirroredPopSequence ==
    /\ pc = "pair" => SamePop(2)
    /\ (pc = "pair" /\ SingleSuccessors(g)) => SamePop(1)

\* the traversals have gone past a node with two successors: dfsAdjList on
\* the mirrored graph still agrees with dfsAllPaths, dfsAdjList on the
\* graph itself is about to pop another node
C13_Witness ==
    /\ pc = "pair"
    /\ Len(successors(g, startNode)) >= 2
    /\ i >= 3
    /\ Len(queue) > 0
    /\ SamePop(2)
    /\ ~SamePop(1)

(***************************************************************************)
(* Vocabulary of the claim about the paths dfsAllPaths stores.             *)
(***************************************************************************)
\* v -> w is an edge of the graph being traversed
IsEdge(v, w) == <<v, w>> \in Range(g)

\* every element of the stored sequence is reached by an edge from the next
IsWalk(p) == \A k \in 1..(Len(p) - 1) : IsEdge(p[k + 1], p[k])

\* the stored sequence of a work item: its node, then the path behind it
Stored(item) == <<item.node>> \o item.path

\* the start node at the far end, and an edge into the node at the near end
EndsJoined(p) ==
    /\ Len(p) > 0
    /\ p[Len(p)] = startNode
    /\ Len(p) > 1 => IsEdge(p[2], p[1])

\* C14: while dfsAllPaths runs, every queued work item and every finalized
\* path ends at the start node and begins with an edge into its current
\* node, and a finalized path begins at a node without successors; when
\* dfsAllPaths returns, every stored sequence, all of which extend the
\* sequences stored before, is a walk: each element is reached by an edge
\* from the element after it.
C14_StoredPathsAreWalks ==
    /\ pc \in {"dfsAllPaths", "allPathsDone"} =>
          /\ \A k \in 1..Len(queue) : EndsJoined(Stored(queue[k]))
          /\ \A k \in 1..Len(pathsArr) :
                /\ EndsJoined(pathsArr[k])
                /\ pathsArr[k][1] \in Sinks(g)
    /\ pc = "allPathsDone" =>
          /\ \A k \in 1..Len(queue) : IsWalk(Stored(queue[k]))
          /\ \A k \in 1..Len(pathsArr) : IsWalk(pathsArr[k])
          /\ ret = pathsArr

\* dfsAllPaths has finalized a path over two edges and still has a partial
\* path queued behind it
C14_Witness ==
    /\ pc = "dfsAllPaths"
    /\ i >= 3
    /\ \E k \in 1..Len(pathsArr) :
          /\ Len(pathsArr[k]) >= 3
          /\ IsWalk(pathsArr[k])
          /\ pathsArr[k][1] \in Sinks(g)
    /\ \E k \in 1..Len(queue) :
          /\ Len(queue[k].path) >= 1
          /\ IsWalk(Stored(queue[k]))
          /\ EndsJoined(Stored(queue[k]))

(***************************************************************************)
(* Vocabulary of the claim about repeated implied items.                   *)
(***************************************************************************)
\* no two items of the list name the same note
ListedOnce(items) ==
    \A j, k \in 1..Len(items) : j < k => items[j].to # items[k].to

\* C15: after draw has assembled the neighbourhood, no identifier appears
\* more than once among the implied parents, among the implied siblings or
\* among the implied children; a note that shares a parent with the current
\* note and is also its predecessor in the siblings graph is listed once.
C15_ImpliedListedOnce ==
    pc = "drawn" =>
        /\ ListedOnce(impliedParents)
        /\ ListedOnce(impliedSiblingsArr)
        /\ ListedOnce(impliedChildren)

====
